---------------------------- MODULE Spec2Model ----------------------------
(***************************************************************************)
(* A model of jcvi's CD-HIT helpers (src/apps/cdhit.py) and of the Entrez  *)
(* batch fetcher (src/apps/entrez.py).                                     *)
(*                                                                         *)
(* Text is modelled as a sequence of one-character strings, so that the    *)
(* parsing code (split, rstrip, int, slicing, str) is modelled by what it  *)
(* does to the characters.                                                 *)
(*                                                                         *)
(* The module holds five specifications, one per component:                *)
(*   SpecLine    ClstrLine.__init__ on one row                             *)
(*   SpecClstr   the `ids` command: ClstrFile, iter_reps, iter_reps_prefix *)
(*   SpecFilter  the `filter` command                                      *)
(*   SpecPipe    the `uclust` and `deduplicate` commands                   *)
(*   SpecEntrez  batch_entrez and the loop of entrez.main that drains it   *)
(***************************************************************************)
EXTENDS Integers, Sequences, FiniteSets, TLC

VARIABLES
    \* ---- SpecLine: one call of ClstrLine(row)
    rowParts,     \* the pieces the row was written from
    row,          \* the text handed to ClstrLine.__init__
    lineRes,      \* the ClstrLine object, or the raised error
    pcL,          \* "call" | "done"
    \* ---- SpecClstr: one run of `ids`
    clstrfile,    \* the rows of the .clstr file
    optPrefix,    \* opts.prefix: not given (None) or an integer
    cf,           \* the ClstrFile: a sequence of clusters of ClstrLine objects
    selCall,      \* which selector `ids` called, and with what argument
    reads,        \* list(cf.iter_reps...()): pairs <<cluster index, name>>
    idsOut,       \* the rows written to the .ids file
    pcI,          \* "start" | "args" | "loaded" | "selected" | "returned" | "raised"
    \* ---- SpecFilter: one run of `filter`
    fasta,        \* the records of the FASTA file, in file order
    minsize,      \* opts.minsize
    fw,           \* the records written to the output, in order
    posF,         \* the position of the next record of the loop
    pcF,          \* "start" | "loop" | "returned" | "raised"
    \* ---- SpecPipe: one run of `uclust` or `deduplicate`
    cmdP,         \* the command
    optConsensus, \* opts.consensus
    mtime,        \* the modification time of each file, 0 for a missing file
    calls,        \* the external tools run so far, with their exit status
    pcP,          \* the next step of the command, "returned" or "raised"
    \* ---- SpecEntrez: entrez.main draining batch_entrez
    list_of_terms, \* the search terms, in input order
    retmax,       \* the cap passed to every search
    posE,         \* the position of the current term
    idsLeft,      \* the identifiers of the current term not fetched yet
    searchLog,    \* the terms searched, in call order
    fetchLog,     \* the identifiers fetched, in call order
    errLog,       \* the terms logged as not found
    yielded,      \* the records yielded, in order
    pcE           \* "next" | "fetch" | "done" | "raised"

lineVars == <<rowParts, row, lineRes, pcL>>
clstrVars == <<clstrfile, optPrefix, cf, selCall, reads, idsOut, pcI>>
filterVars == <<fasta, minsize, fw, posF, pcF>>
pipeVars == <<cmdP, optConsensus, mtime, calls, pcP>>
entrezVars == <<list_of_terms, retmax, posE, idsLeft, searchLog, fetchLog, errLog,
                yielded, pcE>>

-----------------------------------------------------------------------------
(* Python's text primitives, on sequences of characters.                    *)

\* str.isspace() for the characters that occur in the modelled files
IsSpace(c) == c \in {" ", "\t", "\n", "\r"}

IsDigit(c) == c \in {"0", "1", "2", "3", "4", "5", "6", "7", "8", "9"}

DigitVal(c) ==
    CASE c = "0" -> 0 [] c = "1" -> 1 [] c = "2" -> 2 [] c = "3" -> 3
      [] c = "4" -> 4 [] c = "5" -> 5 [] c = "6" -> 6 [] c = "7" -> 7
      [] c = "8" -> 8 [] c = "9" -> 9

DigitChar(d) ==
    CASE d = 0 -> "0" [] d = 1 -> "1" [] d = 2 -> "2" [] d = 3 -> "3"
      [] d = 4 -> "4" [] d = 5 -> "5" [] d = 6 -> "6" [] d = 7 -> "7"
      [] d = 8 -> "8" [] d = 9 -> "9"

\* s[from:] restricted to the tail that starts at 1-based position from
Tail_(s, from) == SubSeq(s, from, Len(s))

\* s.startswith(p)
StartsWith(s, p) == Len(s) >= Len(p) /\ SubSeq(s, 1, Len(p)) = p

\* s.find(sub), 1-based; 0 when sub does not occur
RECURSIVE FindFrom(_, _, _)
FindFrom(s, sub, i) ==
    IF i + Len(sub) - 1 > Len(s) THEN 0
    ELSE IF SubSeq(s, i, i + Len(sub) - 1) = sub THEN i
    ELSE FindFrom(s, sub, i + 1)

Find(s, sub) == FindFrom(s, sub, 1)

\* s.split(sep, 1): one piece when sep does not occur, else two
SplitMax1(s, sep) ==
    LET i == Find(s, sep) IN
    IF i = 0 THEN <<s>>
    ELSE <<SubSeq(s, 1, i - 1), Tail_(s, i + Len(sep))>>

\* s.split(sep)[0]: the text before the first sep, all of s without one
SplitHead(s, sep) ==
    LET i == Find(s, sep) IN
    IF i = 0 THEN s ELSE SubSeq(s, 1, i - 1)

\* s.split(): the maximal runs of non-whitespace characters
RECURSIVE SplitWSFrom(_, _, _)
SplitWSFrom(s, i, cur) ==
    IF i > Len(s) THEN (IF cur = <<>> THEN <<>> ELSE <<cur>>)
    ELSE IF IsSpace(s[i])
         THEN (IF cur = <<>> THEN <<>> ELSE <<cur>>) \o SplitWSFrom(s, i + 1, <<>>)
         ELSE SplitWSFrom(s, i + 1, Append(cur, s[i]))

SplitWS(s) == SplitWSFrom(s, 1, <<>>)

\* s.rstrip()
RECURSIVE RStrip(_)
RStrip(s) ==
    IF s # <<>> /\ IsSpace(s[Len(s)]) THEN RStrip(SubSeq(s, 1, Len(s) - 1))
    ELSE s

\* the value of a run of decimal digits
RECURSIVE DigitsVal(_)
DigitsVal(ds) ==
    IF ds = <<>> THEN 0
    ELSE 10 * DigitsVal(SubSeq(ds, 1, Len(ds) - 1)) + DigitVal(ds[Len(ds)])

\* int(s) for a token without whitespace: an optional sign and one or more
\* digits, a ValueError otherwise
PyInt(s) ==
    LET signed == s # <<>> /\ s[1] \in {"+", "-"}
        ds     == IF signed THEN Tail_(s, 2) ELSE s
    IN  IF ds # <<>> /\ \A k \in 1..Len(ds) : IsDigit(ds[k])
        THEN [ok |-> TRUE,
              val |-> IF signed /\ s[1] = "-" THEN 0 - DigitsVal(ds)
                      ELSE DigitsVal(ds)]
        ELSE [ok |-> FALSE, val |-> 0]

\* str(n) for an integer
RECURSIVE NatStr(_)
NatStr(n) ==
    IF n < 10 THEN <<DigitChar(n)>>
    ELSE Append(NatStr(n \div 10), DigitChar(n % 10))

PyStr(n) == IF n < 0 THEN <<"-">> \o NatStr(0 - n) ELSE NatStr(n)

\* s[:n], Python's slice: a negative n counts from the end
SliceTo(s, n) ==
    LET e == IF n >= 0 THEN (IF n > Len(s) THEN Len(s) ELSE n)
             ELSE (IF Len(s) + n < 0 THEN 0 ELSE Len(s) + n)
    IN  SubSeq(s, 1, e)

-----------------------------------------------------------------------------
(* ClstrLine                                                                *)

NoLine == [ok |-> FALSE, size |-> 0, name |-> <<>>, rep |-> FALSE]

\* a variant that takes the flag from a `*` anywhere in the row
ClstrLine_StarAnywhere(r) ==
    LET ab == SplitMax1(r, <<">">>) IN
    IF Len(ab) # 2 THEN NoLine
    ELSE LET toks == SplitWS(SplitHead(ab[1], <<"n", "t">>)) IN
         IF Len(toks) # 2 THEN NoLine
         ELSE LET size == PyInt(toks[2]) IN
              IF ~size.ok THEN NoLine
              ELSE [ok   |-> TRUE,
                    size |-> size.val,
                    name |-> SplitHead(ab[2], <<".", ".", ".">>),
                    rep  |-> Find(r, <<"*">>) # 0]

\* ClstrLine.__init__(row): the object's fields, or ok = FALSE for the
\* ValueError of `a, b = ...`, of `sid, size = ...` or of int(size)
ClstrLine(r) ==
    LET ab == SplitMax1(r, <<">">>) IN
    IF Len(ab) # 2 THEN NoLine
    ELSE LET toks == SplitWS(SplitHead(ab[1], <<"n", "t">>)) IN
         IF Len(toks) # 2 THEN NoLine
         ELSE LET size == PyInt(toks[2]) IN
              IF ~size.ok THEN NoLine
              ELSE [ok   |-> TRUE,
                    size |-> size.val,
                    name |-> SplitHead(ab[2], <<".", ".", ".">>),
                    rep  |-> LET s == RStrip(r) IN s[Len(s)] = "*"]

-----------------------------------------------------------------------------
(* SpecLine: rows written from pieces, then parsed.                         *)

MaxNameLen == 2

NameAlphabet == {"A", ".", ">", "*", "n"}

RECURSIVE StrsUpTo(_, _)
StrsUpTo(alphabet, n) ==
    IF n = 0 THEN {<<>>}
    ELSE LET shorter == StrsUpTo(alphabet, n - 1) IN
         shorter \cup {Append(s, c) : s \in shorter, c \in alphabet}

RowIdx == {<<"0">>, <<"1", "2">>}
RowSep == {<<"\t">>, <<" ", " ">>}
RowSizeVals == {0, 7, 10, 12067}
RowSizeBad == {<<"x">>, <<"1", "x">>, <<"1", " ", "2">>}
RowSuffix == {<<" ", "*">>, <<" ", "*", " ", "\n">>, <<"*">>,
              <<" ", "a", "t", " ", "-", "/", "9", "%">>,
              <<" ", "a", "t", " ", "*", "/", "9", "%", "\n">>}

\* the text of a row: `<idx><sep><size>nt, ><name>...<suffix>`; with
\* gt = FALSE the `>` is left out
RowText(p) ==
    p.idx \o p.sep
      \o (IF p.sizeBad = <<>> THEN PyStr(p.sizeVal) ELSE p.sizeBad)
      \o <<"n", "t", ",", " ">>
      \o (IF p.gt THEN <<">">> ELSE <<>>)
      \o p.name \o <<".", ".", ".">> \o p.suffix

RowPartsSet ==
    [idx : RowIdx, sep : RowSep, sizeVal : RowSizeVals,
     sizeBad : RowSizeBad \cup {<<>>}, gt : BOOLEAN,
     name : StrsUpTo(NameAlphabet, MaxNameLen), suffix : RowSuffix]

LineIdle ==
    /\ rowParts = [idx |-> <<>>, sep |-> <<>>, sizeVal |-> 0, sizeBad |-> <<>>,
                   gt |-> FALSE, name |-> <<>>, suffix |-> <<>>]
    /\ row = <<>>
    /\ lineRes = NoLine
    /\ pcL = "idle"

ParseRow ==
    /\ pcL = "call"
    /\ lineRes' = ClstrLine(row)
    /\ pcL' = "done"
    /\ UNCHANGED <<rowParts, row>>

-----------------------------------------------------------------------------
(* ClstrFile and its iterators                                              *)

IsHeader(r) == StartsWith(r, <<">">>)

\* read_block(fp, ">"): the rows grouped into blocks, each opened by a row
\* that starts with `>` and holding the rows up to the next such row
RECURSIVE read_block_from(_, _, _)
read_block_from(rows, i, blocks) ==
    IF i > Len(rows) THEN blocks
    ELSE IF IsHeader(rows[i])
         THEN read_block_from(rows, i + 1,
                  Append(blocks, [header |-> rows[i], members |-> <<>>]))
         ELSE IF blocks = <<>> THEN read_block_from(rows, i + 1, blocks)
         ELSE read_block_from(rows, i + 1,
                  [blocks EXCEPT ![Len(blocks)].members = Append(@, rows[i])])

read_block(rows) == read_block_from(rows, 1, <<>>)

NoCf == [ok |-> FALSE, clusters |-> <<>>]

\* a variant that keeps only the blocks that have members
ClstrFile_SkipEmpty(rows) ==
    LET blocks == SelectSeq(read_block(rows), LAMBDA b : b.members # <<>>)
        parsed == [i \in 1..Len(blocks) |->
                     [j \in 1..Len(blocks[i].members) |->
                        ClstrLine(blocks[i].members[j])]]
    IN  IF \E i \in 1..Len(parsed) : \E j \in 1..Len(parsed[i]) : ~parsed[i][j].ok
        THEN NoCf
        ELSE [ok |-> TRUE, clusters |-> parsed]

\* a variant that drops the rows ClstrLine cannot parse
ClstrFile_SkipBadRows(rows) ==
    LET blocks == read_block(rows)
        parsed == [i \in 1..Len(blocks) |->
                     SelectSeq([j \in 1..Len(blocks[i].members) |->
                                  ClstrLine(blocks[i].members[j])],
                               LAMBDA m : m.ok)]
    IN  [ok |-> TRUE, clusters |-> parsed]

\* ClstrFile.__init__: one list of ClstrLine objects per block, appended in
\* the order read_block yields them; a ValueError of ClstrLine is not caught
ClstrFile(rows) ==
    LET blocks == read_block(rows)
        parsed == [i \in 1..Len(blocks) |->
                     [j \in 1..Len(blocks[i].members) |->
                        ClstrLine(blocks[i].members[j])]]
    IN  IF \E i \in 1..Len(parsed) : \E j \in 1..Len(parsed[i]) : ~parsed[i][j].ok
        THEN NoCf
        ELSE [ok |-> TRUE, clusters |-> parsed]

RECURSIVE Flatten(_)
Flatten(ss) == IF ss = <<>> THEN <<>> ELSE Head(ss) \o Flatten(Tail(ss))

\* a variant that yields each cluster's first member
iter_reps_first_member(clusters) ==
    Flatten([i \in 1..Len(clusters) |->
               IF clusters[i] = <<>> THEN <<>>
               ELSE << <<i - 1, clusters[i][1].name>> >>])

\* ClstrFile.iter_reps: enumerate() counts the clusters from 0
iter_reps(clusters) ==
    Flatten([i \in 1..Len(clusters) |->
               LET marked == SelectSeq(clusters[i], LAMBDA b : b.rep) IN
               [k \in 1..Len(marked) |-> <<i - 1, marked[k].name>>]])

\* ord(c) for the characters of the modelled names
Ord(c) ==
    CASE c = "*" -> 42 [] c = "." -> 46 [] c = ">" -> 62
      [] c = "A" -> 65 [] c = "B" -> 66 [] c = "n" -> 110
      [] IsDigit(c) -> 48 + DigitVal(c)

\* s < t for two strings
RECURSIVE StrLess(_, _)
StrLess(s, t) ==
    IF t = <<>> THEN FALSE
    ELSE IF s = <<>> THEN TRUE
    ELSE IF Ord(s[1]) # Ord(t[1]) THEN Ord(s[1]) < Ord(t[1])
    ELSE StrLess(Tail(s), Tail(t))

\* sorted() of a set of distinct strings
RECURSIVE SortedStrs(_)
SortedStrs(S) ==
    IF S = {} THEN <<>>
    ELSE LET m == CHOOSE x \in S : \A y \in S \ {x} : StrLess(x, y) IN
         <<m>> \o SortedStrs(S \ {m})

\* a variant that keeps the last of the members of largest size
RECURSIVE max_by_size_last(_)
max_by_size_last(ms) ==
    IF Len(ms) = 1 THEN ms[1]
    ELSE LET best == max_by_size_last(SubSeq(ms, 1, Len(ms) - 1)) IN
         IF ms[Len(ms)].size >= best.size THEN ms[Len(ms)] ELSE best

\* max(ms, key=lambda x: x.size): the running maximum is replaced only by a
\* strictly larger member
RECURSIVE max_by_size(_)
max_by_size(ms) ==
    IF Len(ms) = 1 THEN ms[1]
    ELSE LET best == max_by_size(SubSeq(ms, 1, Len(ms) - 1)) IN
         IF ms[Len(ms)].size > best.size THEN ms[Len(ms)] ELSE best

\* ClstrFile.iter_reps_prefix(prefix): d[pp] lists the members of prefix pp
\* in file order, and the groups are visited in sorted(d.items()) order
iter_reps_prefix(clusters, prefix) ==
    Flatten([i \in 1..Len(clusters) |->
               LET members == clusters[i]
                   pps == SortedStrs({SliceTo(members[j].name, prefix) :
                                        j \in 1..Len(members)})
               IN  [k \in 1..Len(pps) |->
                      <<i - 1,
                        max_by_size(SelectSeq(members,
                            LAMBDA b : SliceTo(b.name, prefix) = pps[k])).name>>]])

\* `def iter_reps_prefix(self, prefix=3)`
DefaultPrefix == 3

\* a call of iter_reps_prefix: the default applies when no argument is passed
iter_reps_prefix_call(clusters, arg) ==
    iter_reps_prefix(clusters, IF arg.given THEN arg.val ELSE DefaultPrefix)

-----------------------------------------------------------------------------
(* The `ids` command                                                        *)

NoArg == [given |-> FALSE, val |-> 0]

\* a variant that tests `prefix is not None`
IdsUsePrefix_NotNone(prefix) == prefix.given

\* `if prefix:` on opts.prefix, which is None or an int
IdsUsePrefix(prefix) == prefix.given /\ prefix.val # 0

\* a variant that joins the two fields with a blank
IdsRow_Blank(i, name) == PyStr(i) \o <<" ">> \o name

\* "\t".join(str(x) for x in (i, name))
IdsRow(i, name) == PyStr(i) \o <<"\t">> \o name

MaxRows == 5

HeaderRow == <<">", "C">>

MemberRow(idx, size, name, suffix) ==
    RowText([idx |-> idx, sep |-> <<"\t">>, sizeVal |-> size, sizeBad |-> <<>>,
             gt |-> TRUE, name |-> name, suffix |-> suffix])

SuffixRep == <<" ", "*">>
SuffixAt == <<" ", "a", "t", " ", "+", "/", "9", "%">>

GoodRows ==
    { MemberRow(<<"0">>, 5, <<"A", "A", "1">>, SuffixAt),
      MemberRow(<<"1">>, 5, <<"A", "A", "2">>, SuffixRep),
      MemberRow(<<"2">>, 10, <<"A", "B", "3">>, SuffixAt),
      MemberRow(<<"3">>, 10, <<"B", "1">>, SuffixRep) }

\* a row without `>`, and a row whose size is not a number
BadRowNoGt ==
    RowText([idx |-> <<"0">>, sep |-> <<"\t">>, sizeVal |-> 5, sizeBad |-> <<>>,
             gt |-> FALSE, name |-> <<"A", "A", "1">>, suffix |-> SuffixRep])
BadRowSize ==
    RowText([idx |-> <<"0">>, sep |-> <<"\t">>, sizeVal |-> 0, sizeBad |-> <<"x">>,
             gt |-> TRUE, name |-> <<"A", "A", "1">>, suffix |-> SuffixRep])

BadRows == {BadRowNoGt, BadRowSize}

\* the files: empty, or a header row followed by any rows
RECURSIVE RowSeqs(_, _)
RowSeqs(S, n) ==
    IF n = 0 THEN {<<>>}
    ELSE LET shorter == RowSeqs(S, n - 1) IN
         shorter \cup {Append(s, r) : s \in shorter, r \in S}

ClstrFiles ==
    {<<>>} \cup {<<HeaderRow>> \o rest :
                   rest \in RowSeqs(GoodRows \cup BadRows \cup {HeaderRow}, MaxRows - 1)}

PrefixOpts == {NoArg} \cup [given : {TRUE}, val : {-1, 0, 1, 2, 3}]

ClstrInit ==
    /\ clstrfile \in ClstrFiles
    /\ optPrefix = NoArg
    /\ cf = NoCf
    /\ selCall = [mode |-> "none", arg |-> NoArg]
    /\ reads = <<>>
    /\ idsOut = <<>>
    /\ pcI = "start"

ClstrIdle ==
    /\ clstrfile = <<>>
    /\ optPrefix = NoArg
    /\ cf = NoCf
    /\ selCall = [mode |-> "none", arg |-> NoArg]
    /\ reads = <<>>
    /\ idsOut = <<>>
    /\ pcI = "idle"

\* p.parse_args(args): --prefix is absent or an int
IdsParseArgs ==
    /\ pcI = "start"
    /\ optPrefix' \in PrefixOpts
    /\ pcI' = "args"
    /\ UNCHANGED <<clstrfile, cf, selCall, reads, idsOut>>

\* cf = ClstrFile(clstrfile)
IdsLoad ==
    /\ pcI = "args"
    /\ LET c == ClstrFile(clstrfile) IN
       IF c.ok THEN cf' = c /\ pcI' = "loaded"
       ELSE cf' = cf /\ pcI' = "raised"
    /\ UNCHANGED <<clstrfile, optPrefix, selCall, reads, idsOut>>

\* reads = list(cf.iter_reps_prefix(prefix=prefix)) or list(cf.iter_reps())
IdsSelect ==
    /\ pcI = "loaded"
    /\ IF IdsUsePrefix(optPrefix)
       THEN LET arg == [given |-> TRUE, val |-> optPrefix.val] IN
            /\ selCall' = [mode |-> "prefix", arg |-> arg]
            /\ reads' = iter_reps_prefix_call(cf.clusters, arg)
       ELSE /\ selCall' = [mode |-> "exact", arg |-> NoArg]
            /\ reads' = iter_reps(cf.clusters)
    /\ pcI' = "selected"
    /\ UNCHANGED <<clstrfile, optPrefix, cf, idsOut>>

\* the loop that prints one row per read, fw.close() and the return
IdsWrite ==
    /\ pcI = "selected"
    /\ idsOut' = [k \in 1..Len(reads) |-> IdsRow(reads[k][1], reads[k][2])]
    /\ pcI' = "returned"
    /\ UNCHANGED <<clstrfile, optPrefix, cf, selCall, reads>>

-----------------------------------------------------------------------------
(* The `filter` command                                                     *)

\* p.add_option("--minsize", default=10, type="int")
DefaultMinsize == 10

\* a variant that also drops the clusters of exactly the minimum size
FilterRecord_DropEqual(desc, min) ==
    IF StartsWith(desc, <<"s", "i", "n", "g", "l", "e", "t", "o", "n">>)
    THEN "skip"
    ELSE LET toks == SplitWS(desc) IN
         IF Len(toks) # 4 THEN "raise"
         ELSE IF toks[2] # <<"w", "i", "t", "h">> THEN "raise"
         ELSE LET size == PyInt(toks[3]) IN
              IF ~size.ok THEN "raise"
              ELSE IF size.val <= min THEN "skip"
              ELSE "write"

\* the body of the loop of filter() for one description: `continue`
\* ("skip"), SeqIO.write ("write"), or the error of the unpacking, of the
\* assert or of int() ("raise")
FilterRecord(desc, min) ==
    IF StartsWith(desc, <<"s", "i", "n", "g", "l", "e", "t", "o", "n">>)
    THEN "skip"
    ELSE LET toks == SplitWS(desc) IN
         IF Len(toks) # 4 THEN "raise"
         ELSE IF toks[2] # <<"w", "i", "t", "h">> THEN "raise"
         ELSE LET size == PyInt(toks[3]) IN
              IF ~size.ok THEN "raise"
              ELSE IF size.val < min THEN "skip"
              ELSE "write"

MaxRecs == 3

WordWith == <<" ", "w", "i", "t", "h", " ">>
WordSeqs == <<" ", "s", "e", "q", "u", "e", "n", "c", "e", "s">>
WordSingleton == <<"s", "i", "n", "g", "l", "e", "t", "o", "n">>

\* `<name> with <N> sequences`
ClusterDesc(name, n) == name \o WordWith \o PyStr(n) \o WordSeqs

DescSizes == {2, 9, 10, 63}

\* the descriptions of the convention, each with the size it was written from
ConventionDescs ==
    {[kind |-> "cluster", n |-> n, desc |-> ClusterDesc(<<"c", "0">>, n)] :
        n \in DescSizes}
    \cup {[kind |-> "singleton", n |-> 1, desc |-> WordSingleton \o <<"_", "7">>],
          [kind |-> "singleton", n |-> 63,
           desc |-> ClusterDesc(WordSingleton \o <<"_", "7">>, 63)]}

\* descriptions outside the convention
OtherDescs ==
    {[kind |-> "other", n |-> 0, desc |-> <<"c", "0">>],
     [kind |-> "other", n |-> 0,
      desc |-> <<"c", "0", " ", "o", "f", " ", "6", "3", " ", "x">>],
     [kind |-> "other", n |-> 0,
      desc |-> <<"c", "0">> \o WordWith \o <<"x">> \o WordSeqs]}

\* the FASTA files: records numbered by position
FastaFiles ==
    UNION {{[k \in 1..len |-> [id |-> k, kind |-> f[k].kind, n |-> f[k].n,
                               desc |-> f[k].desc]] :
               f \in [1..len -> ConventionDescs \cup OtherDescs]} :
           len \in 0..MaxRecs}

MinsizeOpts == {DefaultMinsize, 3, 64}

FilterInit ==
    /\ fasta \in FastaFiles
    /\ minsize = DefaultMinsize
    /\ fw = <<>>
    /\ posF = 1
    /\ pcF = "start"

FilterIdle ==
    /\ fasta = <<>>
    /\ minsize = DefaultMinsize
    /\ fw = <<>>
    /\ posF = 1
    /\ pcF = "idle"

\* p.parse_args(args), Fasta(fastafile, lazy=True), must_open(outfile, "w")
FilterParseArgs ==
    /\ pcF = "start"
    /\ minsize' \in MinsizeOpts
    /\ pcF' = "loop"
    /\ UNCHANGED <<fasta, fw, posF>>

\* Fasta.iterdescriptions_ordered(): the pairs (description, record), in
\* file order
iterdescriptions_ordered(f) == [k \in 1..Len(f) |-> <<f[k].desc, f[k]>>]

\* one turn of `for desc, rec in f.iterdescriptions_ordered()`
FilterStep ==
    /\ pcF = "loop"
    /\ posF <= Len(fasta)
    /\ LET desc == iterdescriptions_ordered(fasta)[posF][1]
           rec  == iterdescriptions_ordered(fasta)[posF][2]
           act  == FilterRecord(desc, minsize)
       IN  /\ fw' = IF act = "write" THEN Append(fw, rec) ELSE fw
           /\ pcF' = IF act = "raise" THEN "raised" ELSE "loop"
           /\ posF' = IF act = "raise" THEN posF ELSE posF + 1
    /\ UNCHANGED <<fasta, minsize>>

\* the iterator is exhausted and filter() returns
FilterReturn ==
    /\ pcF = "loop"
    /\ posF > Len(fasta)
    /\ pcF' = "returned"
    /\ UNCHANGED <<fasta, minsize, fw, posF>>

-----------------------------------------------------------------------------
(* The `uclust` and `deduplicate` commands                                  *)

MaxTime == 2

UclustFiles == {"sorted", "consout"}
DedupFiles == {"dd", "clstr", "cons"}
Files == {"fasta"} \cup UclustFiles \cup DedupFiles

\* the exit statuses of an external tool
ExitStatuses == {0, 1}

\* need_update(a, b): an output is missing, or an input is newer than an
\* output
need_update(a, b) ==
    \/ \E y \in b : mtime[y] = 0
    \/ \E x \in a : \E y \in b : mtime[x] > mtime[y]

\* sh(cmd) with the exit status st of the tool: a non-zero status is a fatal
\* error
sh_raises(st) == st # 0

\* a time later than every file's
Now ==
    LET times == {mtime[f] : f \in Files} IN
    1 + (CHOOSE t \in times : \A u \in times : u <= t)

\* the files after a tool has run: a tool that exits with 0 has written its
\* outputs; one that fails may have written any of them
FilesAfter(outs, st) ==
    IF st = 0 THEN {[f \in Files |-> IF f \in outs THEN Now ELSE mtime[f]]}
    ELSE {[f \in Files |-> IF f \in w THEN Now ELSE mtime[f]] : w \in SUBSET outs}

\* `if need_update(ins, outs): sh(cmd)`, then on to step `next`; nothing
\* catches the error of sh
RunIfNeeded(tool, ins, outs, next) ==
    IF need_update(ins, outs)
    THEN \E st \in ExitStatuses :
            /\ calls' = Append(calls, [tool |-> tool, status |-> st])
            /\ mtime' \in FilesAfter(outs, st)
            /\ pcP' = IF sh_raises(st) THEN "raised" ELSE next
    ELSE /\ pcP' = next
         /\ UNCHANGED <<calls, mtime>>

\* a variant that goes on to the next step whatever the tool's status
RunIfNeeded_GoOn(tool, ins, outs, next) ==
    IF need_update(ins, outs)
    THEN \E st \in ExitStatuses :
            /\ calls' = Append(calls, [tool |-> tool, status |-> st])
            /\ mtime' \in FilesAfter(outs, st)
            /\ pcP' = next
    ELSE /\ pcP' = next
         /\ UNCHANGED <<calls, mtime>>

\* a variant of uclust's first step that catches the error of the sort
UclustSort_Caught ==
    /\ cmdP = "uclust"
    /\ pcP = "start"
    /\ RunIfNeeded_GoOn("usearch -sortbylength", {"fasta"}, {"sorted"}, "cluster")
    /\ UNCHANGED <<cmdP, optConsensus>>

\* uclust: usearch -sortbylength
UclustSort ==
    /\ cmdP = "uclust"
    /\ pcP = "start"
    /\ RunIfNeeded("usearch -sortbylength", {"fasta"}, {"sorted"}, "cluster")
    /\ UNCHANGED <<cmdP, optConsensus>>

\* uclust: usearch -cluster_smallmem, then the function ends
UclustCluster ==
    /\ cmdP = "uclust"
    /\ pcP = "cluster"
    /\ RunIfNeeded("usearch -cluster_smallmem", {"sorted"}, {"consout"}, "returned")
    /\ UNCHANGED <<cmdP, optConsensus>>

\* deduplicate: cd-hit-est or cd-hit-454
DedupCdhit ==
    /\ cmdP = "deduplicate"
    /\ pcP = "start"
    /\ RunIfNeeded("cd-hit", {"fasta"}, {"dd", "clstr"}, "consensus")
    /\ UNCHANGED <<cmdP, optConsensus>>

\* deduplicate: cdhit-cluster-consensus under --consensus, then `return dd`
DedupConsensus ==
    /\ cmdP = "deduplicate"
    /\ pcP = "consensus"
    /\ IF optConsensus
       THEN RunIfNeeded("cdhit-cluster-consensus", {"clstr", "fasta"}, {"cons"},
                        "returned")
       ELSE pcP' = "returned" /\ UNCHANGED <<calls, mtime>>
    /\ UNCHANGED <<cmdP, optConsensus>>

PipeInit ==
    /\ cmdP \in {"uclust", "deduplicate"}
    /\ optConsensus \in BOOLEAN
    /\ cmdP = "uclust" => ~optConsensus
    /\ mtime \in {m \in [Files -> 0..MaxTime] :
                    /\ m["fasta"] >= 1
                    /\ \A f \in (IF cmdP = "uclust" THEN DedupFiles ELSE UclustFiles) :
                          m[f] = 0}
    /\ calls = <<>>
    /\ pcP = "start"

PipeIdle ==
    /\ cmdP = "none"
    /\ optConsensus = FALSE
    /\ mtime = [f \in Files |-> 0]
    /\ calls = <<>>
    /\ pcP = "idle"

-----------------------------------------------------------------------------
(* batch_entrez, drained by the loop of entrez.main                         *)

\* `def batch_entrez(list_of_terms, db="nucleotide", retmax=1, ...)`
DefaultRetmax == 1
MaxRetmax == 2
MaxTerms == 3

Terms == {"t0", "t1", "t3"}

\* the identifiers the database holds for a term
DbIds(term) ==
    CASE term = "t0" -> <<>>
      [] term = "t1" -> <<11>>
      [] term = "t3" -> <<31, 32, 33, 34>>

\* Entrez.read(Entrez.esearch(..., retmax=cap))["IdList"]
IdList(term, cap) ==
    LET all == DbIds(term) IN
    SubSeq(all, 1, IF Len(all) < cap THEN Len(all) ELSE cap)

\* Entrez.efetch(id=id, ...).read()
RecordText(id) == <<"record", id>>

EntrezInit ==
    /\ list_of_terms \in UNION {[1..n -> Terms] : n \in 0..MaxTerms}
    /\ retmax \in DefaultRetmax..MaxRetmax
    /\ posE = 1
    /\ idsLeft = <<>>
    /\ searchLog = <<>>
    /\ fetchLog = <<>>
    /\ errLog = <<>>
    /\ yielded = <<>>
    /\ pcE = "next"

EntrezIdle ==
    /\ list_of_terms = <<>>
    /\ retmax = DefaultRetmax
    /\ posE = 1
    /\ idsLeft = <<>>
    /\ searchLog = <<>>
    /\ fetchLog = <<>>
    /\ errLog = <<>>
    /\ yielded = <<>>
    /\ pcE = "idle"

\* a variant that ends the generator at the first term without identifiers
EntrezSearch_StopOnMiss ==
    /\ pcE = "next"
    /\ posE <= Len(list_of_terms)
    /\ LET ids == IdList(list_of_terms[posE], retmax) IN
       /\ searchLog' = Append(searchLog, list_of_terms[posE])
       /\ errLog' = IF ids = <<>> THEN Append(errLog, list_of_terms[posE]) ELSE errLog
       /\ idsLeft' = ids
       /\ pcE' = IF ids = <<>> THEN "done" ELSE "fetch"
    /\ UNCHANGED <<list_of_terms, retmax, posE, fetchLog, yielded>>

\* the head of `for term in list_of_terms`: one search, and the error log
\* when it returns no identifiers
EntrezSearch ==
    /\ pcE = "next"
    /\ posE <= Len(list_of_terms)
    /\ LET ids == IdList(list_of_terms[posE], retmax) IN
       /\ searchLog' = Append(searchLog, list_of_terms[posE])
       /\ errLog' = IF ids = <<>> THEN Append(errLog, list_of_terms[posE]) ELSE errLog
       /\ idsLeft' = ids
       /\ pcE' = "fetch"
    /\ UNCHANGED <<list_of_terms, retmax, posE, fetchLog, yielded>>

\* one turn of `for id in ids`: one fetch, whose text is yielded
EntrezFetch ==
    /\ pcE = "fetch"
    /\ idsLeft # <<>>
    /\ fetchLog' = Append(fetchLog, Head(idsLeft))
    /\ yielded' = Append(yielded, RecordText(Head(idsLeft)))
    /\ idsLeft' = Tail(idsLeft)
    /\ UNCHANGED <<list_of_terms, retmax, posE, searchLog, errLog, pcE>>

\* `for id in ids` is exhausted: on to the next term
EntrezNextTerm ==
    /\ pcE = "fetch"
    /\ idsLeft = <<>>
    /\ posE' = posE + 1
    /\ pcE' = "next"
    /\ UNCHANGED <<list_of_terms, retmax, idsLeft, searchLog, fetchLog, errLog, yielded>>

\* `for term in list_of_terms` is exhausted: the generator ends
EntrezDone ==
    /\ pcE = "next"
    /\ posE > Len(list_of_terms)
    /\ pcE' = "done"
    /\ UNCHANGED <<list_of_terms, retmax, posE, idsLeft, searchLog, fetchLog, errLog,
                   yielded>>

\* a remote call raises (the network, the server): nothing catches it
EntrezCallRaises ==
    /\ \/ pcE = "next" /\ posE <= Len(list_of_terms)
       \/ pcE = "fetch" /\ idsLeft # <<>>
    /\ pcE' = "raised"
    /\ UNCHANGED <<list_of_terms, retmax, posE, idsLeft, searchLog, fetchLog, errLog,
                   yielded>>

-----------------------------------------------------------------------------

vars == <<lineVars, clstrVars, filterVars, pipeVars, entrezVars>>

notLineVars == <<clstrVars, filterVars, pipeVars, entrezVars>>
notClstrVars == <<lineVars, filterVars, pipeVars, entrezVars>>
notFilterVars == <<lineVars, clstrVars, pipeVars, entrezVars>>
notPipeVars == <<lineVars, clstrVars, filterVars, entrezVars>>
notEntrezVars == <<lineVars, clstrVars, filterVars, pipeVars>>

LineInit ==
    /\ rowParts \in {p \in RowPartsSet : p.sizeBad # <<>> => p.sizeVal = 0}
    /\ row = RowText(rowParts)
    /\ lineRes = NoLine
    /\ pcL = "call"
    /\ ClstrIdle /\ FilterIdle /\ PipeIdle /\ EntrezIdle

LineNext == ParseRow /\ UNCHANGED notLineVars

SpecLine == LineInit /\ [][LineNext]_vars

IdsInit == ClstrInit /\ LineIdle /\ FilterIdle /\ PipeIdle /\ EntrezIdle

IdsNext ==
    \/ IdsParseArgs /\ UNCHANGED notClstrVars
    \/ IdsLoad /\ UNCHANGED notClstrVars
    \/ IdsSelect /\ UNCHANGED notClstrVars
    \/ IdsWrite /\ UNCHANGED notClstrVars

SpecClstr == IdsInit /\ [][IdsNext]_vars

FilterSpecInit == FilterInit /\ LineIdle /\ ClstrIdle /\ PipeIdle /\ EntrezIdle

FilterNext ==
    \/ FilterParseArgs /\ UNCHANGED notFilterVars
    \/ FilterStep /\ UNCHANGED notFilterVars
    \/ FilterReturn /\ UNCHANGED notFilterVars

SpecFilter == FilterSpecInit /\ [][FilterNext]_vars

PipeSpecInit == PipeInit /\ LineIdle /\ ClstrIdle /\ FilterIdle /\ EntrezIdle

PipeNext ==
    \/ UclustSort /\ UNCHANGED notPipeVars
    \/ UclustCluster /\ UNCHANGED notPipeVars
    \/ DedupCdhit /\ UNCHANGED notPipeVars
    \/ DedupConsensus /\ UNCHANGED notPipeVars

SpecPipe == PipeSpecInit /\ [][PipeNext]_vars

EntrezSpecInit == EntrezInit /\ LineIdle /\ ClstrIdle /\ FilterIdle /\ PipeIdle

EntrezNext ==
    \/ EntrezSearch /\ UNCHANGED notEntrezVars
    \/ EntrezFetch /\ UNCHANGED notEntrezVars
    \/ EntrezNextTerm /\ UNCHANGED notEntrezVars
    \/ EntrezDone /\ UNCHANGED notEntrezVars
    \/ EntrezCallRaises /\ UNCHANGED notEntrezVars

SpecEntrez == EntrezSpecInit /\ [][EntrezNext]_vars

-----------------------------------------------------------------------------
(* Properties of ClstrLine (SpecLine)                                       *)

\* the text between the first `>` of r and the first `...` after it
TextBetween(r) ==
    LET i == CHOOSE k \in 1..Len(r) :
                 r[k] = ">" /\ \A m \in 1..(k - 1) : r[m] # ">"
        IsDots(k) == k + 2 <= Len(r) /\ \A m \in k..(k + 2) : r[m] = "."
        j == CHOOSE k \in (i + 1)..Len(r) :
                 IsDots(k) /\ \A m \in (i + 1)..(k - 1) : ~IsDots(m)
    IN  [k \in 1..(j - i - 1) |-> r[i + k]]

\* the last character of r that is not whitespace
LastNonSpace(r) ==
    r[CHOOSE k \in 1..Len(r) :
          ~IsSpace(r[k]) /\ \A m \in (k + 1)..Len(r) : IsSpace(r[m])]

\* the row has the form `<idx> <size>nt, ><name>...<suffix>`
IsMemberForm(p) == p.gt /\ p.sizeBad = <<>>

\* C4: a row of the form `<idx> <size>nt, ><name>...<suffix>` parses to the
\* integer written before `nt`, to the text between the first `>` and the
\* first `...` as the name, and to a representative flag that is true exactly
\* when the last non-whitespace character of the row is `*`.
C4_MemberRowFields ==
    (pcL = "done" /\ IsMemberForm(rowParts)) =>
        /\ lineRes.ok
        /\ lineRes.size = rowParts.sizeVal
        /\ lineRes.name = TextBetween(row)
        /\ lineRes.rep <=> (LastNonSpace(row) = "*")

C4_Witness ==
    /\ pcL = "done"
    /\ IsMemberForm(rowParts)
    /\ lineRes.ok
    /\ lineRes.size = 12067
    /\ lineRes.name = <<"A", "n">>
    /\ ~lineRes.rep
    /\ Find(row, <<"*">>) # 0

-----------------------------------------------------------------------------
(* Properties of ClstrFile and of `ids` (SpecClstr)                         *)

HeaderPos(rows) == {k \in 1..Len(rows) : rows[k][1] = ">"}

\* the number of blocks of the file
NumBlocks(rows) == Cardinality(HeaderPos(rows))

\* the position of the header row of the i-th block, i = 1..NumBlocks
NthHeader(rows, i) ==
    CHOOSE h \in HeaderPos(rows) :
        Cardinality({g \in HeaderPos(rows) : g < h}) = i - 1

\* the member rows of the i-th block, in file order
BlockRows(rows, i) ==
    LET first == NthHeader(rows, i) + 1
        last  == IF i = NumBlocks(rows) THEN Len(rows)
                 ELSE NthHeader(rows, i + 1) - 1
    IN  [k \in 1..(last - first + 1) |-> rows[first + k - 1]]

\* the 0-based block a row at position k lies in
BlockOf(rows, k) == Cardinality({h \in HeaderPos(rows) : h <= k}) - 1

WellFormedFile(rows) ==
    /\ rows # <<>> => rows[1][1] = ">"
    /\ \A k \in 1..Len(rows) : rows[k][1] # ">" => rows[k] \in GoodRows

AfterLoad == pcI \in {"loaded", "selected", "returned", "raised"}
AfterSelect == pcI \in {"selected", "returned"}

\* C1: a well-formed file with K blocks loads as exactly K clusters, the
\* i-th cluster holding the parsed member rows of the i-th block in file
\* order.
C1_OneClusterPerBlock ==
    (AfterLoad /\ WellFormedFile(clstrfile)) =>
        /\ pcI # "raised"
        /\ cf.ok
        /\ Len(cf.clusters) = NumBlocks(clstrfile)
        /\ \A i \in 1..NumBlocks(clstrfile) :
              LET rs == BlockRows(clstrfile, i) IN
              /\ Len(cf.clusters[i]) = Len(rs)
              /\ \A j \in 1..Len(rs) : cf.clusters[i][j] = ClstrLine(rs[j])

C1_Witness ==
    /\ pcI = "loaded"
    /\ WellFormedFile(clstrfile)
    /\ NumBlocks(clstrfile) = 3
    /\ Len(cf.clusters) = 3
    /\ Len(cf.clusters[1]) = 2
    /\ cf.clusters[1][2].name = <<"B", "1">>
    /\ cf.clusters[2] = <<>>
    /\ Len(cf.clusters[3]) = 0

MarkedIn(cluster) == {j \in 1..Len(cluster) : cluster[j].rep}

OneMarkedPerCluster ==
    \A i \in 1..Len(cf.clusters) : Cardinality(MarkedIn(cf.clusters[i])) = 1

\* C2: in exact-representative mode, when every cluster has exactly one
\* member marked `*`, the selection is one pair per cluster, in cluster
\* order: the 0-based cluster index and the name of the marked member.
C2_OneRepPerCluster ==
    (AfterSelect /\ selCall.mode = "exact" /\ OneMarkedPerCluster) =>
        /\ Len(reads) = Len(cf.clusters)
        /\ \A i \in 1..Len(cf.clusters) :
              LET j == CHOOSE m \in MarkedIn(cf.clusters[i]) : TRUE IN
              reads[i] = <<i - 1, cf.clusters[i][j].name>>

C2_Witness ==
    /\ pcI = "selected"
    /\ selCall.mode = "exact"
    /\ OneMarkedPerCluster
    /\ Len(cf.clusters) = 2
    /\ Len(cf.clusters[1]) = 2
    /\ reads = << <<0, <<"A", "A", "2">> >>, <<1, <<"B", "1">> >> >>
    /\ cf.clusters[1][1].name = <<"A", "A", "1">>

\* the first n characters of a name (all of it when it is shorter)
NamePrefix(name, n) ==
    [k \in 1..(IF Len(name) < n THEN Len(name) ELSE n) |-> name[k]]

\* the members of a cluster whose name has prefix pp
GroupOf(cluster, n, pp) ==
    {j \in 1..Len(cluster) : NamePrefix(cluster[j].name, n) = pp}

\* the first of the members of largest size in a group
IsFirstLargest(cluster, G, j) ==
    /\ j \in G
    /\ \A m \in G : cluster[m].size <= cluster[j].size
    /\ \A m \in G : m < j => cluster[m].size < cluster[j].size

\* C3: in prefix-grouped mode with prefix length N, each cluster yields
\* exactly one member per distinct N-character name prefix among its
\* members: the member of largest size in that prefix group, and the first
\* of them in file order when several share the largest size.
C3_LargestPerPrefix ==
    (AfterSelect /\ selCall.mode = "prefix" /\ selCall.arg.val >= 1) =>
        LET n == selCall.arg.val
            cs == cf.clusters
        IN  /\ \A k \in 1..Len(reads) : reads[k][1] \in 0..(Len(cs) - 1)
            /\ \A i \in 1..Len(cs) :
                 \A pp \in {NamePrefix(cs[i][j].name, n) : j \in 1..Len(cs[i])} :
                    LET hits == {k \in 1..Len(reads) :
                                    /\ reads[k][1] = i - 1
                                    /\ NamePrefix(reads[k][2], n) = pp}
                    IN  /\ Cardinality(hits) = 1
                        /\ \A k \in hits :
                              \E j \in GroupOf(cs[i], n, pp) :
                                 /\ IsFirstLargest(cs[i], GroupOf(cs[i], n, pp), j)
                                 /\ reads[k][2] = cs[i][j].name

C3_Witness ==
    /\ pcI = "selected"
    /\ selCall.mode = "prefix"
    /\ selCall.arg.val = 2
    /\ Len(cf.clusters) = 1
    /\ Len(cf.clusters[1]) = 4
    /\ cf.clusters[1][1].name = <<"B", "1">>
    /\ cf.clusters[1][2].name = <<"A", "A", "2">>
    /\ cf.clusters[1][3].name = <<"A", "A", "1">>
    /\ cf.clusters[1][2].size = cf.clusters[1][3].size
    /\ reads = << <<0, <<"A", "A", "2">> >>, <<0, <<"A", "B", "3">> >>,
                  <<0, <<"B", "1">> >> >>

\* a member row without `>`, or with a size that is not a number
IsBadRow(r) == (\A k \in 1..Len(r) : r[k] # ">") \/ r = BadRowSize

HasBadRow(rows) == \E k \in 1..Len(rows) : IsBadRow(rows[k])

\* C5: a member row without `>` or with a non-numeric size makes ClstrLine
\* fail, and the failure aborts the construction of the ClstrFile: the
\* caller gets no ClstrFile, not even the clusters read before the bad row.
C5_BadRowAborts ==
    /\ \A r \in BadRows : IsBadRow(r) /\ ~ClstrLine(r).ok
    /\ (AfterLoad /\ HasBadRow(clstrfile)) =>
          /\ pcI = "raised"
          /\ cf = NoCf
          /\ reads = <<>>
          /\ idsOut = <<>>

C5_Witness ==
    /\ pcI = "raised"
    /\ Len(clstrfile) = 4
    /\ clstrfile[2] \in GoodRows
    /\ clstrfile[3] = HeaderRow
    /\ clstrfile[4] = BadRowSize
    /\ cf = NoCf

\* the two fields of a row of the .ids file
IdsFields(r) == SplitMax1(r, <<"\t">>)

\* C7: the .ids file has one row per selected representative, in selection
\* order; each row is the 0-based block position of the representative's
\* cluster, a tab, and the member name; the cluster indices never decrease.
C7_IdsRows ==
    pcI = "returned" =>
        /\ Len(idsOut) = Len(reads)
        /\ \A k \in 1..Len(idsOut) :
              LET f == IdsFields(idsOut[k]) IN
              /\ Len(f) = 2
              /\ PyInt(f[1]).ok
              /\ PyInt(f[1]).val = reads[k][1]
              /\ f[2] = reads[k][2]
              /\ \E m \in 1..Len(clstrfile) :
                    /\ clstrfile[m][1] # ">"
                    /\ BlockOf(clstrfile, m) = PyInt(f[1]).val
                    /\ ClstrLine(clstrfile[m]).name = f[2]
        /\ \A k \in 1..(Len(idsOut) - 1) :
              PyInt(IdsFields(idsOut[k])[1]).val
                 <= PyInt(IdsFields(idsOut[k + 1])[1]).val

C7_Witness ==
    /\ pcI = "returned"
    /\ Len(reads) = 3
    /\ idsOut = << <<"0", "\t", "A", "A", "1">>,
                   <<"0", "\t", "B", "1">>,
                   <<"1", "\t", "A", "B", "3">> >>

\* C10: `ids` uses prefix-grouped mode exactly when --prefix is given with a
\* non-zero integer, and then with that integer as the prefix length;
\* otherwise it uses exact-representative mode. The selector's default
\* prefix length is never applied.
C10_PrefixSwitch ==
    AfterSelect =>
        /\ selCall.mode = "prefix" <=> (optPrefix.given /\ optPrefix.val # 0)
        /\ selCall.mode = "prefix" =>
              /\ selCall.arg.given
              /\ selCall.arg.val = optPrefix.val
              /\ reads = iter_reps_prefix(cf.clusters, optPrefix.val)
        /\ selCall.mode # "prefix" =>
              /\ selCall.mode = "exact"
              /\ reads = iter_reps(cf.clusters)

C10_Witness ==
    /\ pcI = "selected"
    /\ optPrefix = [given |-> TRUE, val |-> 0]
    /\ selCall.mode = "exact"
    /\ Len(cf.clusters) = 1
    /\ Len(cf.clusters[1]) = 3
    /\ Len(reads) = 1

-----------------------------------------------------------------------------
(* Properties of `filter` (SpecFilter)                                      *)

\* a record of the convention that `filter` is to keep: its description does
\* not start with `singleton` and the size it was written from is at least
\* the minimum
ToKeep(rec) ==
    /\ \E k \in 1..Len(WordSingleton) : rec.desc[k] # WordSingleton[k]
    /\ rec.kind = "cluster"
    /\ rec.n >= minsize

\* C6: `filter` writes a record exactly when its description does not start
\* with `singleton` and its embedded cluster size is at least the minimum
\* size; the written records keep their input order and no excluded record
\* is written.
C6_FilterOutput ==
    pcF \in {"loop", "returned"} =>
        /\ fw = SelectSeq(SubSeq(fasta, 1, posF - 1), ToKeep)
        /\ pcF = "returned" => posF = Len(fasta) + 1

C6_Witness ==
    /\ pcF = "returned"
    /\ minsize = DefaultMinsize
    /\ Len(fasta) = 3
    /\ fasta[1].kind = "singleton" /\ fasta[1].n = 63
    /\ fasta[2].kind = "cluster" /\ fasta[2].n = 9
    /\ fasta[3].kind = "cluster" /\ fasta[3].n = 10
    /\ fw = <<fasta[3]>>

-----------------------------------------------------------------------------
(* Properties of `uclust` and `deduplicate` (SpecPipe)                      *)

\* C8: when an external tool exits with a non-zero status, no later tool of
\* the same command is run and the command does not return normally.
C8_FailureHalts ==
    \A k \in 1..Len(calls) :
        calls[k].status # 0 => (k = Len(calls) /\ pcP = "raised")

C8_Witness ==
    /\ cmdP = "uclust"
    /\ pcP = "raised"
    /\ calls = <<[tool |-> "usearch -sortbylength", status |-> 1]>>
    /\ need_update({"sorted"}, {"consout"})

-----------------------------------------------------------------------------
(* Properties of batch_entrez (SpecEntrez)                                  *)

\* the identifiers returned over all terms, in term order
AllIds == Flatten([k \in 1..Len(list_of_terms) |-> IdList(list_of_terms[k], retmax)])

RECURSIVE SumLens(_)
SumLens(ss) == IF ss = <<>> THEN 0 ELSE Len(Head(ss)) + SumLens(Tail(ss))

WithoutIds(t) == Len(IdList(t, retmax)) = 0

\* C9: the terms are searched in input order, once each; a term without
\* identifiers is logged, yields nothing, is not searched again and does not
\* stop the terms after it; every identifier of a term is fetched once, in
\* the returned order, and its text is yielded, so that as many records are
\* yielded as identifiers were returned.
C9_EntrezOrder ==
    /\ Len(searchLog) <= Len(list_of_terms)
    /\ \A k \in 1..Len(searchLog) : searchLog[k] = list_of_terms[k]
    /\ Len(yielded) = Len(fetchLog)
    /\ pcE = "done" =>
          /\ searchLog = list_of_terms
          /\ errLog = SelectSeq(list_of_terms, WithoutIds)
          /\ fetchLog = AllIds
          /\ \A k \in 1..Len(AllIds) : yielded[k] = RecordText(AllIds[k])
          /\ Len(yielded)
                = SumLens([k \in 1..Len(list_of_terms) |-> IdList(list_of_terms[k], retmax)])

C9_Witness ==
    /\ pcE = "done"
    /\ retmax = 2
    /\ list_of_terms = <<"t3", "t0", "t1">>
    /\ errLog = <<"t0">>
    /\ fetchLog = <<31, 32, 11>>
    /\ Len(yielded) = 3

=============================================================================
